---- MODULE Spec2Model ----
(***************************************************************************)
(* A model of jstoxml (src/jstoxml.js): the recursive renderer toXML and   *)
(* its helpers.                                                            *)
(*                                                                         *)
(* Strings are sequences of lexemes.  A lexeme is an indivisible piece of  *)
(* text: "<", ">", "/", "=", the double quote, the space and the newline   *)
(* are the characters the renderer writes; every other lexeme ("a",        *)
(* "_attrs", "&amp;", ...) is a run of characters that holds no "<".       *)
(* Substring search (String.match, String.replace) is search over          *)
(* lexemes.                                                                *)
(*                                                                         *)
(* A JavaScript value is a record [tag, v]: tag is the kind of the value   *)
(* and v its payload.  A plain object is a sequence of [k, v] pairs in     *)
(* insertion order.                                                        *)
(***************************************************************************)
EXTENDS Integers, Sequences, FiniteSets, TLC

VARIABLES
  obj,        \* the caller's node; toXML may delete keys inside it
  config,     \* the caller's config object
  input,      \* the node as it was when toXML was called
  outputStr,  \* the string toXML returned
  pc,         \* "start" before the call, "done" after it
  stack       \* step machine: the calls of toXML that are still to be made

vars == <<obj, config, input, outputStr, pc, stack>>

----------------------------------------------------------------------------
(* JavaScript values *)

Str(s) == [tag |-> "string", v |-> s]
Num(n) == [tag |-> "number", v |-> n]
Bool(b) == [tag |-> "boolean", v |-> b]
Null == [tag |-> "null", v |-> <<>>]
Undefined == [tag |-> "undefined", v |-> <<>>]
Date(s) == [tag |-> "date", v |-> s]
Arr(items) == [tag |-> "array", v |-> items]
Obj(kv) == [tag |-> "object", v |-> kv]
Fn(id) == [tag |-> "function", v |-> id]
KV(key, val) == [k |-> key, v |-> val]

\* Object.keys(o)
Keys(o) == [i \in DOMAIN o.v |-> o.v[i].k]

HasKey(o, key) == \E i \in DOMAIN o.v : o.v[i].k = key

\* o[key]
Get(o, key) ==
  IF o.tag = "object" /\ HasKey(o, key)
  THEN o.v[CHOOSE i \in DOMAIN o.v : o.v[i].k = key].v
  ELSE Undefined

\* delete o[key]
Delete(o, key) == Obj(SelectSeq(o.v, LAMBDA p : p.k # key))

\* o[key] = val
Set(o, key, val) ==
  IF HasKey(o, key)
  THEN Obj([i \in DOMAIN o.v |-> IF o.v[i].k = key THEN KV(key, val) ELSE o.v[i]])
  ELSE Obj(Append(o.v, KV(key, val)))

\* The truthiness of a value.
Truthy(val) ==
  CASE val.tag = "string" -> val.v # <<>>
    [] val.tag = "number" -> val.v # 0
    [] val.tag = "boolean" -> val.v
    [] val.tag \in {"null", "undefined"} -> FALSE
    [] OTHER -> TRUE

\* val === true
IsTrue(val) == val.tag = "boolean" /\ val.v

\* String(val), also what a template literal makes of val.
ToStr(val) ==
  CASE val.tag = "string" -> val.v
    [] val.tag = "number" -> <<ToString(val.v)>>
    [] val.tag = "boolean" -> IF val.v THEN <<"true">> ELSE <<"false">>
    [] val.tag = "null" -> <<"null">>
    [] val.tag = "undefined" -> <<"undefined">>
    [] val.tag = "date" -> val.v
    [] val.tag = "object" -> <<"[object Object]">>
    [] OTHER -> <<"[", val.tag, "]">>

RECURSIVE Concat(_)
\* strs.join('')
Concat(strs) == IF strs = <<>> THEN <<>> ELSE Head(strs) \o Concat(Tail(strs))

RECURSIVE Join(_, _)
\* strs.join(sep)
Join(strs, sep) ==
  IF strs = <<>> THEN <<>>
  ELSE IF Len(strs) = 1 THEN Head(strs)
  ELSE Head(strs) \o sep \o Join(Tail(strs), sep)

RECURSIVE Repeat(_, _)
\* s.repeat(n)
Repeat(s, n) == IF n = 0 THEN <<>> ELSE s \o Repeat(s, n - 1)

\* whether p occurs in s at position i
OccursAt(p, s, i) ==
  /\ i + Len(p) - 1 <= Len(s)
  /\ \A j \in 1..Len(p) : s[i + j - 1] = p[j]

----------------------------------------------------------------------------
(* src/jstoxml.js *)

K_name == <<"_name">>
K_content == <<"_content">>
K_attrs == <<"_attrs">>
K_selfCloseTag == <<"_selfCloseTag">>

privateVars == <<K_selfCloseTag, K_attrs>>

\* A variant of privateVarsRegexp that C2 must tell from it: _content counts as a
\* private name too.
privateVarsRegexpWithContent(str) ==
  \E i \in DOMAIN str :
    \/ \E n \in DOMAIN privateVars : OccursAt(privateVars[n], str, i)
    \/ OccursAt(K_content, str, i)

\* str.match(privateVarsRegexp): one of the private names occurs in str
privateVarsRegexp(str) ==
  \E n \in DOMAIN privateVars : \E i \in DOMAIN str : OccursAt(privateVars[n], str, i)

getIndentStr(baseIndentStr, depth) == Repeat(baseIndentStr, depth)

getType(val) ==
  IF val.tag = "array" THEN "array"
  ELSE IF val.tag = "object" /\ Truthy(Get(val, K_name)) THEN "special-object"
  ELSE IF val.tag = "date" THEN "date"
  ELSE IF val.tag = "null" THEN "null"
  ELSE val.tag

RECURSIVE filterFrom(_, _, _)
\* The global replace of filterStr from position i on: at each position the first
\* search (in the filter's key order) that occurs there is replaced by its truthy
\* replacement, or by nothing.
filterFrom(s, i, filter) ==
  IF i > Len(s) THEN <<>>
  ELSE LET hits == {n \in DOMAIN filter.v :
                      filter.v[n].k # <<>> /\ OccursAt(filter.v[n].k, s, i)}
       IN  IF hits = {} THEN <<s[i]>> \o filterFrom(s, i + 1, filter)
           ELSE LET n == CHOOSE m \in hits : \A h \in hits : m <= h
                    entity == filter.v[n]
                IN  (IF Truthy(entity.v) THEN ToStr(entity.v) ELSE <<>>)
                      \o filterFrom(s, i + Len(entity.k), filter)

filterStr(inputStr, filter) ==
  filterFrom(IF inputStr.tag = "undefined" THEN <<>> ELSE ToStr(inputStr), 1,
             IF filter.tag = "undefined" THEN Obj(<<>>) ELSE filter)

\* One attribute of the list form: attr is a single-key object.
attrOfArray(attr, filter) ==
  LET key == Keys(attr)[1]
      val == Get(attr, key)
      filteredVal == IF Truthy(filter) THEN Str(filterStr(val, filter)) ELSE val
      valStr == IF IsTrue(filteredVal) THEN <<>>
                ELSE <<"=", "\"">> \o ToStr(filteredVal) \o <<"\"">>
  IN  key \o valStr

\* One attribute of the object form.
attrOfObject(attributes, key, filter) ==
  LET filteredVal == IF Truthy(filter) THEN Str(filterStr(Get(attributes, key), filter))
                     ELSE Get(attributes, key)
      valStr == IF IsTrue(Get(attributes, key)) THEN <<>>
                ELSE <<"=", "\"">> \o ToStr(filteredVal) \o <<"\"">>
  IN  key \o valStr

getAttributeKeyVals(attributes0, filter) ==
  LET attributes == IF attributes0.tag = "undefined" THEN Obj(<<>>) ELSE attributes0
  IN  IF attributes.tag = "array"
      THEN [i \in DOMAIN attributes.v |-> attrOfArray(attributes.v[i], filter)]
      ELSE [i \in DOMAIN attributes.v |-> attrOfObject(attributes, Keys(attributes)[i], filter)]

formatAttributes(attributes, filter) ==
  LET keyVals == getAttributeKeyVals(attributes, filter)
  IN  IF Len(keyVals) = 0 THEN <<>> ELSE <<" ">> \o Join(keyVals, <<" ">>)

objToArray(o) ==
  [i \in DOMAIN o.v |-> Obj(<<KV(K_name, Str(o.v[i].k)), KV(K_content, o.v[i].v)>>)]

isSimpleType(val) ==
  getType(val) \in {"string", "number", "boolean", "date", "special-object"}

isSimpleXML(xmlStr) == ~ \E i \in DOMAIN xmlStr : xmlStr[i] = "<"

defaultHeader == <<"<", "?xml version=\"1.0\" encoding=\"UTF-8\"?", ">">>

getHeaderString(cfg, depth, isOutputStart) ==
  LET shouldOutputHeader == Truthy(cfg.header) /\ isOutputStart
      shouldUseDefaultHeader == cfg.header.tag = "boolean"
  IN  IF shouldOutputHeader
      THEN (IF shouldUseDefaultHeader THEN defaultHeader ELSE ToStr(cfg.header))
             \o (IF cfg.indent # <<>> THEN <<"\n">> ELSE <<>>)
      ELSE <<>>

\* The callables of the model: what each returns when called with the config.
callFn(fn, cfg) ==
  CASE fn.v = "depth" -> Num(cfg.depth)
    [] fn.v = "tag" -> Obj(<<KV(K_name, Str(<<"f">>)), KV(K_content, Str(<<"t">>))>>)
    [] fn.v = "fn" -> Fn("tag")
    [] OTHER -> Undefined

\* newConfig of the special-object case: the config content is rendered with
contentConfig(cfg) == [cfg EXCEPT !.depth = cfg.depth + 1]

\* newConfig of the object case: the config the key at index of len is rendered with
keyConfig(cfg, index, len) ==
  [cfg EXCEPT !._isFirstItem = Bool(index = 1), !._isLastItem = Bool(index = len)]

\* A variant of itemConfig that C6 must tell from it: an item is one level deeper
\* than the sequence.
itemConfigDeeper(cfg, index, len) ==
  [cfg EXCEPT !._isFirstItem = Bool(index = 1), !._isLastItem = Bool(index = len),
              !.depth = cfg.depth + 1]

\* newConfig of the array case: the config the item at index of len is rendered with
itemConfig(cfg, index, len) ==
  [cfg EXCEPT !._isFirstItem = Bool(index = 1), !._isLastItem = Bool(index = len)]

\* A variant of isOutputStart that C10 must tell from it: the depth is not looked at.
isOutputStartAtAnyDepth(o, cfg) ==
  isSimpleType(o) \/ (~isSimpleType(o) /\ Truthy(cfg._isFirstItem))

\* isOutputStart of toXML
isOutputStart(o, cfg) ==
  cfg.depth = 0 /\ (isSimpleType(o) \/ (~isSimpleType(o) /\ Truthy(cfg._isFirstItem)))

\* A variant of shouldSelfClose that C3 must tell from it: a boolean _selfCloseTag
\* decides alone, whether or not the content is empty.
shouldSelfCloseAsFlagged(o, valIsEmpty) ==
  IF Get(o, K_selfCloseTag).tag = "boolean"
  THEN Get(o, K_selfCloseTag).v
  ELSE valIsEmpty

\* shouldSelfClose of toXML's special-object case
shouldSelfClose(o, valIsEmpty) ==
  IF Get(o, K_selfCloseTag).tag = "boolean"
  THEN valIsEmpty /\ Get(o, K_selfCloseTag).v
  ELSE valIsEmpty

\* preTag of toXML's special-object case
preTag(o, cfg) ==
  (IF cfg.indent # <<>> /\ ~isOutputStart(o, cfg) THEN <<"\n">> ELSE <<>>)
    \o getIndentStr(cfg.indent, cfg.depth)

\* preTagCloseStr of toXML's special-object case
preTagCloseStr(newVal, cfg) ==
  IF cfg.indent # <<>> /\ ~isSimpleXML(newVal)
  THEN <<"\n">> \o getIndentStr(cfg.indent, cfg.depth)
  ELSE <<>>

\* The private vars that the object case moves up from the sub-object val.
hoisted(val) == SelectSeq(privateVars, LAMBDA p : Get(val, p).tag # "undefined")

\* A variant of afterHoist that C9 must tell from it: _content is deleted from the
\* sub-object as well.
afterHoistAndContent(val) ==
  Obj(SelectSeq(val.v, LAMBDA p : /\ p.k # K_content
                                  /\ \A n \in DOMAIN hoisted(val) : hoisted(val)[n] # p.k))

\* obj[key] once the private vars were deleted from it.
afterHoist(val) ==
  Obj(SelectSeq(val.v, LAMBDA p : \A n \in DOMAIN hoisted(val) : hoisted(val)[n] # p.k))

\* Whether the object case passes the sub-object as an array: it has a _content
\* and sibling keys.
splitsContent(val1) ==
  Get(val1, K_content).tag # "undefined" /\ Len(val1.v) > 1

\* The special-object the object case builds for a key whose value is val.
outputObjOf(key, val) ==
  LET isObj == getType(val) = "object"
      moved == IF isObj THEN hoisted(val) ELSE <<>>
      val1 == IF isObj THEN afterHoist(val) ELSE val
      base == Obj(<<KV(K_name, Str(key))>>
                    \o [n \in DOMAIN moved |-> KV(moved[n], Get(val, moved[n]))])
  IN  IF isObj /\ splitsContent(val1)
      THEN Set(base, K_content,
               Arr(objToArray(Delete(val1, K_content)) \o <<Get(val1, K_content)>>))
      ELSE Set(base, K_content, val1)

\* obj[key] after the call: the sub-object without its private vars, with what
\* rendering outputObj (rendered: outputObj after toXML) changed inside it.
valAfter(val, rendered) ==
  LET isObj == getType(val) = "object"
      val1 == IF isObj THEN afterHoist(val) ELSE val
      back == Get(rendered, K_content)
      at == CHOOSE c \in DOMAIN val1.v : val1.v[c].k = K_content
  IN  IF isObj /\ splitsContent(val1)
      THEN Obj([i \in DOMAIN val1.v |->
                 IF i = at THEN KV(K_content, back.v[Len(back.v)])
                 ELSE KV(val1.v[i].k,
                         Get(back.v[IF i > at THEN i - 1 ELSE i], K_content))])
      ELSE back

\* The recursive call of the special-object case: none in verbatim mode (_content is
\* null) and none for a private name, else one, of the content one level deeper.
specialCalls(o, cfg) ==
  IF Get(o, K_content).tag = "null" \/ privateVarsRegexp(ToStr(Get(o, K_name)))
  THEN <<>>
  ELSE <<[obj |-> Get(o, K_content), config |-> contentConfig(cfg)]>>

\* The recursive calls of the object case: one per key, of the special-object built
\* for the key.
objectCalls(o, cfg) ==
  [index \in DOMAIN o.v |->
    [obj |-> outputObjOf(o.v[index].k, o.v[index].v),
     config |-> keyConfig(cfg, index, Len(o.v))]]

\* A variant of functionCalls that C7 must tell from it: the recursive call is of
\* the callable, not of what it returns.
functionCallsOfItself(o, cfg) == <<[obj |-> o, config |-> cfg]>>

\* The recursive call of the function case: of what the callable returns, with the
\* same config.
functionCalls(o, cfg) == <<[obj |-> callFn(o, cfg), config |-> cfg]>>

\* The recursive calls of the array case: one per item.
arrayCalls(o, cfg) ==
  [index \in DOMAIN o.v |->
    [obj |-> o.v[index], config |-> itemConfig(cfg, index, Len(o.v))]]

\* The node toXML works on: obj = {} is the default of an undefined argument.
argOf(obj0) == IF obj0.tag = "undefined" THEN Obj(<<>>) ELSE obj0

\* The recursive calls that toXML(obj0, cfg) makes, in order.
callsOf(obj0, cfg) ==
  LET valType == getType(argOf(obj0))
  IN  CASE valType = "special-object" -> specialCalls(argOf(obj0), cfg)
        [] valType = "object" -> objectCalls(argOf(obj0), cfg)
        [] valType = "function" -> functionCalls(argOf(obj0), cfg)
        [] valType = "array" -> arrayCalls(argOf(obj0), cfg)
        [] OTHER -> <<>>

RECURSIVE toXML(_, _)
\* toXML(obj0, cfg): out is the string returned, obj is obj0 after the call.
toXML(obj0, cfg) ==
  LET o == argOf(obj0)
      valType == getType(o)
      \* what the recursive calls return
      calls == callsOf(obj0, cfg) \o <<>>
      r == [n \in DOMAIN calls |-> toXML(calls[n].obj, calls[n].config)] \o <<>>
      body ==
        CASE valType = "special-object" ->
               LET _name == Get(o, K_name)
                   _content == Get(o, K_content)
               IN  IF _content.tag = "null" THEN [out |-> ToStr(_name), obj |-> o]
                   ELSE IF privateVarsRegexp(ToStr(_name)) THEN [out |-> <<>>, obj |-> o]
                   ELSE LET newVal == r[1].out
                            valIsEmpty == newVal = <<>>
                            selfCloseStr == IF shouldSelfClose(o, valIsEmpty)
                                            THEN <<"/">> ELSE <<>>
                            attributesString ==
                              formatAttributes(Get(o, K_attrs), cfg.attributesFilter)
                            tag == <<"<">> \o ToStr(_name) \o attributesString
                                     \o selfCloseStr \o <<">">>
                            postTag == IF ~shouldSelfClose(o, valIsEmpty)
                                       THEN newVal \o preTagCloseStr(newVal, cfg)
                                              \o <<"<", "/">> \o ToStr(_name) \o <<">">>
                                       ELSE <<>>
                        IN  [out |-> preTag(o, cfg) \o tag \o postTag,
                             obj |-> IF HasKey(o, K_content)
                                     THEN Set(o, K_content, r[1].obj) ELSE o]
          [] valType = "object" ->
               [out |-> Concat([index \in DOMAIN o.v |-> r[index].out]),
                obj |-> Obj([index \in DOMAIN o.v |->
                              KV(o.v[index].k, valAfter(o.v[index].v, r[index].obj))])]
          [] valType = "function" -> [out |-> r[1].out, obj |-> o]
          [] valType = "array" ->
               [out |-> Concat([index \in DOMAIN o.v |-> r[index].out]),
                obj |-> Arr([index \in DOMAIN o.v |-> r[index].obj])]
          [] OTHER -> [out |-> filterStr(o, cfg.filter), obj |-> o]
      headerStr == getHeaderString(cfg, cfg.depth, isOutputStart(o, cfg))
  IN  [out |-> headerStr \o body.out,
       obj |-> IF obj0.tag = "undefined" THEN obj0 ELSE body.obj]

----------------------------------------------------------------------------
(* The inputs of the model *)

MaxNest == 1    \* how many shapes and containers are nested around a seed of the input
MaxDepth == 1   \* the largest config.depth a call starts with

nA == <<"a">>
nB == <<"b">>
nC == <<"c">>
x_attrs == <<"x", "_attrs">>
text == Str(<<"t">>)
markup == Str(<<"<", "&">>)

\* { _name: name, _content: content }
Tag(name, content) == Obj(<<KV(K_name, Str(name)), KV(K_content, content)>>)

\* The filter map of the configs that have one: "&" and "<" are escaped and
\* "t" has a falsy replacement.
someFilter ==
  Obj(<<KV(<<"&">>, Str(<<"&amp;">>)), KV(<<"<">>, Str(<<"&lt;">>)), KV(<<"t">>, Str(<<>>))>>)

customHeader == Str(<<"<", "?custom?", ">">>)

Configs ==
  [header : {Undefined, Bool(TRUE), customHeader},
   indent : {<<>>, <<"  ">>},
   filter : {Undefined, someFilter},
   attributesFilter : {Undefined, someFilter},
   depth : 0..MaxDepth,
   _isFirstItem : {Undefined, Bool(TRUE)},
   _isLastItem : {Undefined}]

\* Attribute sets: absent, the object form and the list form (with a repeated key).
objectAttrs == Obj(<<KV(<<"x">>, Bool(TRUE)), KV(<<"y">>, Str(<<"&">>)), KV(<<"z">>, Num(1))>>)
arrayAttrs ==
  Arr(<<Obj(<<KV(<<"x">>, Bool(TRUE))>>), Obj(<<KV(<<"y">>, Str(<<"&">>))>>),
        Obj(<<KV(<<"y">>, Num(1))>>)>>)
AttrSets == {Undefined, objectAttrs, arrayAttrs}

Scalars == {text, Str(<<>>), markup, Num(1), Bool(FALSE), Date(<<"Tue Nov 03 2026">>)}
Callables == {Fn("depth"), Fn("tag"), Fn("fn")}

\* A special-object in verbatim mode, its name a ready-made piece of text.
rawText == <<"t", "&">>
verbatim == Obj(<<KV(K_name, Str(rawText)), KV(K_content, Null)>>)

\* The nodes that shapes are nested around.
Seeds ==
  {text, Str(<<>>), markup, Null, Fn("depth"), Fn("tag"), Obj(<<>>), Arr(<<>>), verbatim}

\* A special-object with the given fields; Undefined leaves a field out.
Special(name, content, attrs, selfClose) ==
  Obj(SelectSeq(<<KV(K_name, Str(name)), KV(K_content, content), KV(K_attrs, attrs),
                  KV(K_selfCloseTag, selfClose)>>,
                LAMBDA p : p.v.tag # "undefined"))

\* The special-objects of the model.
Specials ==
  {Special(nA, content, Undefined, selfClose) :
     content \in Seeds \union {Undefined}, selfClose \in {Undefined, Bool(TRUE), Bool(FALSE)}}
  \union {Special(nA, content, attrs, selfClose) :
     content \in {Undefined, text}, attrs \in AttrSets, selfClose \in {Undefined, Bool(FALSE)}}
  \union {Special(name, content, Undefined, Undefined) :
     name \in {K_attrs, K_selfCloseTag, K_content, x_attrs}, content \in {Undefined, text, Null}}
  \union {Special(nA, content, Undefined, Undefined) : content \in Scalars \union Callables}

\* The shapes nested around a node n.
Shapes(n) ==
  { Obj(<<KV(nA, n)>>),
    Obj(<<KV(K_selfCloseTag, n)>>),
    Obj(<<KV(K_attrs, objectAttrs), KV(nA, n)>>),
    Obj(<<KV(K_content, n)>>),
    Obj(<<KV(x_attrs, n)>>),
    Obj(<<KV(<<>>, n)>>),
    Obj(<<KV(nA, n), KV(nB, text)>>),
    Obj(<<KV(nB, Null), KV(nA, n)>>),
    Arr(<<n>>),
    Arr(<<n, Tag(nB, Undefined)>>),
    Arr(<<Obj(<<KV(nA, n)>>)>>),
    Tag(nA, n),
    Special(nA, n, objectAttrs, Bool(TRUE)),
    Obj(<<KV(nA, Obj(<<KV(K_attrs, objectAttrs), KV(K_content, n)>>))>>),
    Obj(<<KV(nA, Obj(<<KV(K_content, n)>>))>>),
    Obj(<<KV(nA, Obj(<<KV(K_selfCloseTag, Bool(FALSE)), KV(nB, n), KV(K_content, text)>>))>>),
    Obj(<<KV(nA, Obj(<<KV(nB, Obj(<<KV(K_attrs, arrayAttrs), KV(nC, n)>>))>>))>>),
    Obj(<<KV(nA, Arr(<<Tag(nB, n), Tag(nC, text)>>))>>),
    Obj(<<KV(nA, Arr(<<n>>))>>) }

\* The containers that a shape is nested in: a key, a key among keys, a sequence, a
\* special-object, a sequence under a key.
Wraps(n) ==
  { Obj(<<KV(nA, n)>>),
    Obj(<<KV(nC, text), KV(nA, n)>>),
    Arr(<<n, Tag(nB, Undefined)>>),
    Tag(nA, n),
    Obj(<<KV(nA, Arr(<<n>>))>>) }

RECURSIVE Nested(_)
\* The seeds with a shape nested around them, in at most k - 1 containers.
Nested(k) ==
  IF k = 0 THEN Seeds
  ELSE IF k = 1 THEN Seeds \union UNION {Shapes(n) : n \in Seeds}
  ELSE Nested(k - 1) \union UNION {Wraps(n) : n \in Nested(k - 1)}

Nodes == Nested(MaxNest) \union Scalars \union Callables \union Specials

----------------------------------------------------------------------------
(* One call of toXML by a caller *)

Init ==
  /\ input \in Nodes
  /\ obj = input
  /\ config \in Configs
  /\ outputStr = <<>>
  /\ pc = "start"
  /\ stack = <<>>

\* outputStr = toXML(obj, config)
Call ==
  /\ pc = "start"
  /\ LET returned == toXML(obj, config)
     IN  outputStr' = returned.out /\ obj' = returned.obj
  /\ pc' = "done"
  /\ UNCHANGED <<config, input, stack>>

Next == Call

Spec == Init /\ [][Next]_vars

----------------------------------------------------------------------------
(* toXML call by call: the stack holds the calls still to be made, the next one
   first.  A call is replaced by the recursive calls it makes. *)

\* The configs of the call-by-call runs: the options that no callable of the model
\* reads are left out.
StepConfigs ==
  {cfg \in Configs : /\ cfg.header.tag = "undefined"
                     /\ cfg.filter.tag = "undefined"
                     /\ cfg.attributesFilter.tag = "undefined"
                     /\ cfg._isFirstItem.tag = "undefined"}

InitSteps ==
  /\ input \in Nodes
  /\ obj = input
  /\ config \in StepConfigs
  /\ outputStr = <<>>
  /\ pc = "run"
  /\ stack = <<[obj |-> input, config |-> config]>>

\* The call at the top of the stack is of a node of type valType.
Running(valType) ==
  /\ pc = "run"
  /\ stack # <<>>
  /\ LET type == getType(argOf(Head(stack).obj))
     IN  IF valType = "scalar"
         THEN type \notin {"special-object", "object", "function", "array"}
         ELSE type = valType

\* The top call is made: its recursive calls take its place.
Recurse ==
  /\ stack' = callsOf(Head(stack).obj, Head(stack).config) \o Tail(stack)
  /\ UNCHANGED <<obj, config, input, outputStr, pc>>

StepSpecial == Running("special-object") /\ Recurse
StepObject == Running("object") /\ Recurse
StepFunction == Running("function") /\ Recurse
StepArray == Running("array") /\ Recurse
StepScalar == Running("scalar") /\ Recurse

\* No call is left: the outermost toXML returns.
Return ==
  /\ pc = "run"
  /\ stack = <<>>
  /\ pc' = "done"
  /\ UNCHANGED <<obj, config, input, outputStr, stack>>

NextSteps ==
  \/ StepSpecial
  \/ StepObject
  \/ StepFunction
  \/ StepArray
  \/ StepScalar
  \/ Return

\* The run is one synchronous call stack: a call that can be made is made.
SpecSteps == InitSteps /\ [][NextSteps]_vars /\ WF_vars(NextSteps)

----------------------------------------------------------------------------
(* Reading a rendered string as XML *)

\* The lexemes a tag name of the model begins with.
NameStarts == {"a", "b", "c", "f", "x", "_attrs", "_selfCloseTag", "_content", "_name"}

\* The lexemes that do not belong to a tag name.
NameEnds == {" ", "/", ">"}

\* The newline and the indent unit.
Whitespace == {"\n", "  "}

\* The XML declaration a config asks for.
Declaration(cfg) == IF cfg.header.tag = "boolean" THEN defaultHeader ELSE ToStr(cfg.header)

IsOpenAt(s, i) == i < Len(s) /\ s[i] = "<" /\ s[i + 1] \in NameStarts
IsCloseAt(s, i) == i < Len(s) /\ s[i] = "<" /\ s[i + 1] = "/"
IsDeclAt(s, i) == i < Len(s) /\ s[i] = "<" /\ s[i + 1] \in {defaultHeader[2], customHeader.v[2]}

\* The position of the ">" that ends the markup starting at i.
TagEnd(s, i) == CHOOSE j \in i..Len(s) : s[j] = ">" /\ \A k \in i..(j - 1) : s[k] # ">"

\* The name that starts at position i.
NameAt(s, i) ==
  SubSeq(s, i, (CHOOSE j \in i..Len(s) : s[j] \in NameEnds /\ \A k \in i..(j - 1) : s[k] \notin NameEnds) - 1)

RECURSIVE Scan(_, _, _)
\* The items of s from position i on, where level tags are open: opening, self-closed
\* and closing tags, declarations, whitespace and text, each with its position and
\* the number of tags open around it.
Scan(s, i, level) ==
  IF i > Len(s) THEN <<>>
  ELSE IF IsOpenAt(s, i)
  THEN LET selfClosed == s[TagEnd(s, i) - 1] = "/"
       IN  <<[kind |-> IF selfClosed THEN "selfclosed" ELSE "open", at |-> i,
              level |-> level, name |-> NameAt(s, i + 1)]>>
             \o Scan(s, TagEnd(s, i) + 1, IF selfClosed THEN level ELSE level + 1)
  ELSE IF IsCloseAt(s, i)
  THEN <<[kind |-> "close", at |-> i, level |-> level - 1, name |-> NameAt(s, i + 2)]>>
         \o Scan(s, TagEnd(s, i) + 1, level - 1)
  ELSE IF IsDeclAt(s, i)
  THEN <<[kind |-> "declaration", at |-> i, level |-> level, name |-> <<s[i + 1]>>]>>
         \o Scan(s, TagEnd(s, i) + 1, level)
  ELSE <<[kind |-> IF s[i] \in Whitespace THEN "space" ELSE "text", at |-> i,
          level |-> level, name |-> <<s[i]>>]>>
         \o Scan(s, i + 1, level)

Items(s) == Scan(s, 1, 0)

IsTag(item) == item.kind \in {"open", "selfclosed"}

\* The names of the outermost tags of s, in order.
TopTags(s) ==
  LET tags == SelectSeq(Items(s), LAMBDA item : IsTag(item) /\ item.level = 0)
  IN  [k \in DOMAIN tags |-> tags[k].name]

\* The text of s outside every tag.
TopText(s) ==
  LET texts == SelectSeq(Items(s), LAMBDA item : item.kind = "text" /\ item.level = 0)
  IN  Concat([k \in DOMAIN texts |-> texts[k].name])

Occurrences(p, s) == Cardinality({i \in DOMAIN s : OccursAt(p, s, i)})

EndsWith(s, p) == Len(p) <= Len(s) /\ SubSeq(s, Len(s) - Len(p) + 1, Len(s)) = p

\* The call is a caller's: the config holds none of the fields toXML threads down.
TopLevelCall == config.depth = 0 /\ config._isFirstItem.tag = "undefined"

Done == pc = "done"

----------------------------------------------------------------------------
(* The claims *)

\* C1: with a truthy header option, the string one top-level toXML call returns
\* holds the XML declaration at most once, and then at its very start.
C1_HeaderAtMostOnce ==
  (Done /\ TopLevelCall /\ Truthy(config.header)) =>
    LET n == Occurrences(Declaration(config), outputStr)
    IN  n <= 1 /\ (n = 1 => OccursAt(Declaration(config), outputStr, 1))

\* toXML({ a: 't', b: 't' }, { header: true }) returns the declaration twice:
\* <?xml ...?><a>t</a><?xml ...?><b>t</b>.
C1_Witness ==
  /\ Done /\ TopLevelCall
  /\ input = Obj(<<KV(nA, text), KV(nB, text)>>)
  /\ config.header = Bool(TRUE) /\ config.indent = <<>> /\ ~Truthy(config.filter)
  /\ outputStr = defaultHeader \o <<"<", "a", ">", "t", "<", "/", "a", ">">>
                   \o defaultHeader \o <<"<", "b", ">", "t", "<", "/", "b", ">">>

\* The private markers of the specification.
PrivateMarkers == {K_attrs, K_selfCloseTag, K_content, K_name}

\* C5: no tag of the output is named by a private marker (_attrs, _selfCloseTag,
\* _content, _name).
C5_NoPrivateMarkerTag ==
  Done => \A k \in DOMAIN Items(outputStr) :
            Items(outputStr)[k].kind \in {"open", "selfclosed", "close"}
              => Items(outputStr)[k].name \notin PrivateMarkers

\* toXML({ a: { _content: 't' } }) returns <a><_content>t</_content></a>.
C5_Witness ==
  /\ Done /\ TopLevelCall
  /\ input = Obj(<<KV(nA, Obj(<<KV(K_content, text)>>))>>)
  /\ ~Truthy(config.header) /\ config.indent = <<>> /\ ~Truthy(config.filter)
  /\ outputStr = <<"<", "a", ">", "<", "_content", ">", "t",
                   "<", "/", "_content", ">", "<", "/", "a", ">">>

\* The name holds _attrs or _selfCloseTag.
HoldsPrivateVar(name) ==
  \E i \in DOMAIN name : OccursAt(K_attrs, name, i) \/ OccursAt(K_selfCloseTag, name, i)

\* The input is a special-object that toXML renders as a tag.
RendersTag(o) ==
  /\ getType(o) = "special-object"
  /\ Get(o, K_content).tag # "null"
  /\ ~HoldsPrivateVar(ToStr(Get(o, K_name)))

\* The pairs of an attribute set of either form, in order.
AttrPairs(attrs) ==
  IF attrs.tag = "array" THEN [i \in DOMAIN attrs.v |-> attrs.v[i].v[1]]
  ELSE IF attrs.tag = "object" THEN attrs.v
  ELSE <<>>

\* An attribute as the specification renders it: the bare key for the value true,
\* key="value" with the value escaped for every other value.
AttrText(pair, filter) ==
  IF IsTrue(pair.v) THEN pair.k
  ELSE pair.k \o <<"=", "\"">> \o filterStr(pair.v, filter) \o <<"\"">>

\* C4: in both forms of attribute set, with or without an attribute filter, the
\* value true is rendered as the bare key and every other value as key="value",
\* the value escaped.
C4_AttributesRendered ==
  (Done /\ RendersTag(input)) =>
    LET pairs == AttrPairs(Get(input, K_attrs))
        attrs == Concat([i \in DOMAIN pairs |->
                          <<" ">> \o AttrText(pairs[i], config.attributesFilter)])
        tag == <<"<">> \o ToStr(Get(input, K_name)) \o attrs
    IN  \E i \in DOMAIN outputStr :
          /\ OccursAt(tag, outputStr, i)
          /\ outputStr[i + Len(tag)] \in {"/", ">"}

\* toXML({ _name: 'a', _attrs: [{ x: true }, { y: '&' }, { y: 1 }] }) with an
\* attribute filter returns <a x="true" y="&amp;" y="1"/>.
C4_Witness ==
  /\ Done
  /\ input = Special(nA, Undefined, arrayAttrs, Undefined)
  /\ config.attributesFilter = someFilter
  /\ ~Truthy(config.header) /\ config.depth = 0
  /\ outputStr = <<"<", "a", " ", "x", "=", "\"", "true", "\"", " ", "y", "=", "\"",
                   "&amp;", "\"", " ", "y", "=", "\"", "1", "\"", "/", ">">>

\* The input is a special-object whose _content is null.
IsVerbatim(o) == getType(o) = "special-object" /\ Get(o, K_content).tag = "null"

\* C10 as stated: what toXML returns for a special-object whose _content is null is
\* exactly its _name, at any depth and with any indent and filter.
C10_VerbatimIsName ==
  (Done /\ IsVerbatim(input)) => outputStr = ToStr(Get(input, K_name))

\* C10 as amended: it is exactly its _name (no tag, no filtering, no newline or
\* indent of its own, a private name included), preceded by the XML declaration,
\* and the declaration's newline when indenting, when the header option is set and
\* the call is at depth 0.
C10_VerbatimIsNameAfterHeader ==
  (Done /\ IsVerbatim(input)) =>
    outputStr =
      (IF Truthy(config.header) /\ config.depth = 0
       THEN Declaration(config) \o (IF config.indent # <<>> THEN <<"\n">> ELSE <<>>)
       ELSE <<>>)
        \o ToStr(Get(input, K_name))

\* A private name rendered verbatim below the top, with an indent and a filter.
C10_Witness ==
  /\ Done /\ IsVerbatim(input)
  /\ Get(input, K_name) = Str(K_attrs)
  /\ config.depth > 0 /\ config.indent # <<>> /\ Truthy(config.filter)
  /\ outputStr = K_attrs

\* The forms of content the specification calls empty.
EmptyContent == {Undefined, Str(<<>>), Obj(<<>>), Arr(<<>>)}

\* C3: a special-object whose rendered content is empty (content left out, the empty
\* string, an empty mapping or sequence) is self-closed, unless _selfCloseTag is
\* false: then it is an open tag and a close tag; one whose rendered content is not
\* empty is not self-closed and keeps its content, whatever _selfCloseTag is.
C3_SelfClose ==
  (Done /\ RendersTag(input)) =>
    LET name == ToStr(Get(input, K_name))
        rendered == toXML(Get(input, K_content), contentConfig(config)).out
        closeTag == <<"<", "/">> \o name \o <<">">>
    IN  /\ Get(input, K_content) \in EmptyContent => rendered = <<>>
        /\ (rendered = <<>> /\ Get(input, K_selfCloseTag) # Bool(FALSE))
             => EndsWith(outputStr, <<"/", ">">>) /\ Occurrences(closeTag, outputStr) = 0
        /\ (rendered = <<>> /\ Get(input, K_selfCloseTag) = Bool(FALSE))
             => EndsWith(outputStr, <<">">> \o closeTag)
        /\ rendered # <<>>
             => /\ ~EndsWith(outputStr, <<"/", ">">>)
                /\ EndsWith(outputStr, closeTag)
                /\ \E i \in DOMAIN outputStr : OccursAt(<<">">> \o rendered, outputStr, i)

\* Content that renders to something under a _selfCloseTag of true: the tag is
\* closed by a close tag.
C3_Witness ==
  /\ Done /\ RendersTag(input)
  /\ Get(input, K_selfCloseTag) = Bool(TRUE)
  /\ Get(input, K_content) = Fn("tag")
  /\ config.indent # <<>>
  /\ EndsWith(outputStr, <<"<", "/", "a", ">">>)

\* The [k, v] pairs of mapping m that satisfy Test.
Pairs(m, Test(_)) == SelectSeq(m.v, Test)

IsPlainTag(o) ==
  /\ getType(o) = "special-object"
  /\ Keys(o) = <<K_name, K_content>>
  /\ Get(o, K_name).tag = "string"
  /\ LET content == Get(o, K_content)
     IN  getType(content) = "object" =>
           \A i \in DOMAIN content.v : content.v[i].k \notin PrivateMarkers

\* C6: a sequence adds no level.  The value of key k being a sequence of
\* special-objects, they are rendered exactly as the keys of a mapping in its place
\* would be: at the depth of k plus one, the sequence adding no tag; and a callable
\* in a sequence that is the value of k is called with that depth.
C6_SequenceAddsNoLevel ==
  (Done /\ getType(input) = "object" /\ Len(input.v) = 1 /\ input.v[1].v.tag = "array") =>
    LET k == input.v[1].k
        items == input.v[1].v.v
        mapping == Obj([i \in DOMAIN items |->
                         KV(ToStr(Get(items[i], K_name)), Get(items[i], K_content))])
    IN  /\ ( /\ \A i \in DOMAIN items : IsPlainTag(items[i])
             /\ \A i, j \in DOMAIN items :
                  i # j => Get(items[i], K_name) # Get(items[j], K_name) )
             => outputStr = toXML(Obj(<<KV(k, mapping)>>), config).out
        /\ (items = <<Fn("depth")>> /\ k # <<>> /\ ~HoldsPrivateVar(k))
             => \E i \in DOMAIN outputStr :
                  OccursAt(<<">", ToString(config.depth + 1), "<">>, outputStr, i)

\* A sequence of two special-objects as the value of a key, one of them holding the
\* callable that returns the depth, rendered with an indent.
C6_Witness ==
  /\ Done /\ config.indent # <<>>
  /\ input = Obj(<<KV(nA, Arr(<<Tag(nB, Fn("depth")), Tag(nC, text)>>))>>)
  /\ \E i \in DOMAIN outputStr :
       OccursAt(<<"\n">> \o Repeat(config.indent, config.depth + 1)
                  \o <<"<", "b", ">", ToString(config.depth + 2)>>, outputStr, i)

\* Nothing but the start of the output, or the XML declaration that starts it, lies
\* between the start of the output and position p.
StartsOutput(p) ==
  \/ p = 1
  \/ /\ Truthy(config.header)
     /\ OccursAt(Declaration(config) \o <<"\n">>, outputStr, 1)
     /\ p = Len(Declaration(config)) + 2

\* The tag at position p of the output, d tags deep, is indented as C8 says: after a
\* newline and d indent units when d >= 1, and after no newline or indent when
\* d = 0.
IndentedAt(p, d) ==
  LET prefix == <<"\n">> \o Repeat(config.indent, d)
  IN  IF d >= 1
      THEN p > Len(prefix) /\ OccursAt(prefix, outputStr, p - Len(prefix))
      ELSE StartsOutput(p) \/ outputStr[p - 1] \notin Whitespace

\* Every tag of the output is indented as C8 says; without an indent unit the output
\* holds no newline and no indent.
TagsIndented ==
  IF config.indent = <<>>
  THEN \A i \in DOMAIN outputStr : outputStr[i] \notin Whitespace
  ELSE \A k \in DOMAIN Items(outputStr) :
         IsTag(Items(outputStr)[k])
           => IndentedAt(Items(outputStr)[k].at, config.depth + Items(outputStr)[k].level)

\* C8: with an indent unit, a tag at depth d follows a newline and d indent units
\* if and only if d >= 1, and nothing is inserted between the tags at depth 0;
\* without an indent unit no newline or indent is emitted.
C8_IndentOnlyBelowTop == (Done /\ TopLevelCall) => TagsIndented

\* toXML([{ a: '' }], { header: '<?custom?>', indent: '  ' }) returns the declaration
\* and its newline twice, the second before the tag at depth 0.
C8_Witness ==
  /\ Done /\ TopLevelCall
  /\ input = Arr(<<Obj(<<KV(nA, Str(<<>>))>>)>>)
  /\ config.header = customHeader /\ config.indent = <<"  ">>
  /\ outputStr = customHeader.v \o <<"\n">> \o customHeader.v \o <<"\n">>
                   \o <<"<", "a", "/", ">">>

\* C8 holds of every call whose output does not repeat the XML declaration: what
\* breaks it is the declaration, and its newline, that C1 finds repeated before the
\* later tags at depth 0.
C8_IndentedUnlessHeaderRepeats ==
  (Done /\ Occurrences(Declaration(config), outputStr) <= 1) => TagsIndented

\* C4 holds of every attribute set but the ordered list rendered with an attribute
\* filter.
C4_ExceptListWithFilter ==
  (Done /\ ~(Get(input, K_attrs).tag = "array" /\ Truthy(config.attributesFilter)))
    => C4_AttributesRendered

RECURSIVE OnlyHoisted(_, _, _)
\* The node after differs from the node before by nothing but _attrs and
\* _selfCloseTag keys deleted from mappings that are the value of a key of a
\* mapping.  underKey: before is the value of a key of a mapping.
OnlyHoisted(before, after, underKey) ==
  IF before.tag = "array"
  THEN /\ after.tag = "array" /\ Len(after.v) = Len(before.v)
       /\ \A i \in DOMAIN before.v : OnlyHoisted(before.v[i], after.v[i], FALSE)
  ELSE IF before.tag = "object"
  THEN LET mayLose == underKey /\ getType(before) = "object"
           kept == SelectSeq(before.v,
                             LAMBDA p : ~(mayLose /\ p.k \in {K_attrs, K_selfCloseTag}
                                           /\ ~HasKey(after, p.k)))
       IN  /\ after.tag = "object"
           /\ Keys(after) = [i \in DOMAIN kept |-> kept[i].k]
           /\ \A i \in DOMAIN kept :
                OnlyHoisted(kept[i].v, after.v[i].v, getType(before) = "object")
  ELSE after = before

\* C9: all that a call of toXML changes in the caller's node is that _attrs and
\* _selfCloseTag are deleted from mappings that are the value of a key of a mapping;
\* _content keys and everything else stay.
C9_OnlyPrivateVarsDeleted == Done => OnlyHoisted(input, obj, FALSE)

\* A sub-object that had _selfCloseTag, a key and _content has lost _selfCloseTag and
\* nothing else.
C9_Witness ==
  /\ Done
  /\ input = Obj(<<KV(nA, Obj(<<KV(K_selfCloseTag, Bool(FALSE)), KV(nB, text),
                                 KV(K_content, text)>>))>>)
  /\ obj = Obj(<<KV(nA, Obj(<<KV(nB, text), KV(K_content, text)>>))>>)

\* C7: toXML terminates on every acyclic input of finite depth, callables included:
\* every run reaches the return of the outermost call.
C7_Terminates == <>(pc = "done")

\* The outermost call has returned for an input that holds a callable returning a
\* callable.
C7_Witness == pc = "done" /\ input = Special(nA, Fn("fn"), Undefined, Undefined)

====
